---- MODULE Spec2Model ----
(***************************************************************************)
(* Spacebook (src/server.js): an express application with a user and a      *)
(* post collection, cookie sessions and disk uploads.  Every route handler  *)
(* is modelled.  A handler runs without interruption from one await to the  *)
(* next, and the database carries out each operation it is asked for at     *)
(* some moment between the request and the handler's resumption: each is a  *)
(* step of its own, so that requests interleave the way the event loop and  *)
(* the database let them.  The database is taken to answer every operation. *)
(***************************************************************************)
EXTENDS Integers, Sequences, FiniteSets, TLC

\* ---------------------------------------------------------------- bounds
\* requests received in one behaviour: over all routes (Spec), and over the
\* routes of accounts and sessions (SpecAuth), of the feed (SpecFeed) and of
\* the profile (SpecProfile)
MaxReqs == 2
MaxAuthReqs == 4
MaxFeedReqs == 5
MaxProfileReqs == 4
\* posts created, or being created, in one behaviour
MaxPosts == 2
\* the latest reading of the millisecond clock, Date.now()
MaxTime == 1

\* ---------------------------------------------------------------- inputs
\* the requests in flight at once, and the values Math.random() * 1e9 rounds to
Procs == {1, 2}
Rands == {0, 1000000000}
Sessions == {"s1", "s2"}
Emails == {"ann@x.com", "bob@x.com"}
Passwords == {"pw", "pw2"}
Null == "null"
Contents == {"Hello"}
NoFile == <<>>
OrigNames == {<<"a", ".", "p", "n", "g">>}
NoId == 0
NoPath == <<>>
NoDoc == <<>>

ProtectedRoutes ==
  {"GET /home", "GET /feed", "POST /post", "GET /profile", "POST /upload-profile-pic"}

VARIABLES users, posts, session, files, now, nreq, budget, pc, req, out
vars == <<users, posts, session, files, now, nreq, budget, pc, req, out>>

\* ---------------------------------------------------------------- helpers
\* path.extname: of the last segment of the path, trailing "/" aside, from its
\* last "."; "" when it has none, when that "." leads the segment, and for ".."
RECURSIVE StripSlashes(_)
StripSlashes(n) ==
  IF n # <<>> /\ n[Len(n)] = "/" THEN StripSlashes(SubSeq(n, 1, Len(n) - 1)) ELSE n

LastIndexOf(n, c) ==
  LET ds == {i \in 1..Len(n) : n[i] = c}
  IN IF ds = {} THEN 0 ELSE CHOOSE i \in ds : \A j \in ds : j <= i

LastSegment(n) ==
  LET m == StripSlashes(n) IN SubSeq(m, LastIndexOf(m, "/") + 1, Len(m))

extname(n) ==
  LET b == LastSegment(n)
      d == LastIndexOf(b, ".")
  IN IF d <= 1 \/ b = <<".", ".">> THEN <<>> ELSE SubSeq(b, d, Len(b))

\* multer diskStorage filename: Date.now() + "-" + Math.round(Math.random()*1e9) + ext
filename(t, rnd, orig) == <<t, "-", rnd>> \o extname(orig)

UploadPath(fname) == <<"/uploads/">> \o fname

DefaultAvatar == <<"/assets/img/default-avatar.png">>

\* ---------------------------------------------------------------- collections
\* an account's _id is its position in users: accounts are never removed
FindOneByEmail(us, email) ==
  LET m == {i \in 1..Len(us) : us[i].email = email}
  IN IF m = {} THEN NoId ELSE CHOOSE i \in m : \A j \in m : i <= j

FindOneByEmailOnly(us, email, password) == FindOneByEmail(us, email)

FindOneByEmailPassword(us, email, password) ==
  LET m == {i \in 1..Len(us) : us[i].email = email /\ us[i].password = password}
  IN IF m = {} THEN NoId ELSE CHOOSE i \in m : \A j \in m : i <= j

FindById(us, id) == IF id \in 1..Len(us) THEN id ELSE NoId

\* email: { type: String, unique: true }: the insert is refused on a duplicate
UniqueEmailMutant(us, email) == TRUE

UniqueEmail(us, email) == \A i \in 1..Len(us) : us[i].email # email

NewUserSwaps(name, email, password, birthday, network) ==
  [name |-> name, email |-> email, password |-> password, birthday |-> network,
   network |-> birthday, profilePic |-> NoPath]

NewUser(name, email, password, birthday, network) ==
  [name |-> name, email |-> email, password |-> password, birthday |-> birthday,
   network |-> network, profilePic |-> NoPath]

NewPost(user, userName, content, imagePath, t) ==
  [userId |-> user, userName |-> userName, content |-> content,
   imagePath |-> imagePath, createdAt |-> t]

\* sort({ createdAt: -1 }): insertion of each document, in collection order,
\* after the documents that are as new or newer
RECURSIVE InsertDesc(_, _)
InsertDesc(s, d) ==
  IF s = <<>> THEN <<d>>
  ELSE IF s[1].createdAt >= d.createdAt THEN <<s[1]>> \o InsertDesc(Tail(s), d)
  ELSE <<d>> \o s

RECURSIVE SortDescFrom(_, _)
SortDescFrom(ps, acc) ==
  IF ps = <<>> THEN acc ELSE SortDescFrom(Tail(ps), InsertDesc(acc, ps[1]))

SortAscMutant(ps) ==
  LET d == SortDescFrom(ps, <<>>) IN [i \in 1..Len(d) |-> d[Len(d) + 1 - i]]

SortDesc(ps) == SortDescFrom(ps, <<>>)

\* the feed's markup for one post
RenderPost(p) ==
  [author |-> p.userName, meta |-> p.createdAt,
   content |-> IF p.content = Null THEN "" ELSE p.content,
   img |-> p.imagePath]

RenderFeed(ps) == [i \in 1..Len(ps) |-> RenderPost(ps[i])]

\* the profile page's markup
RenderProfile(u) ==
  <<IF u.profilePic = NoPath THEN DefaultAvatar ELSE u.profilePic,
    u.name,
    IF u.network \in {Null, ""} THEN "Unknown network" ELSE u.network>>

\* ---------------------------------------------------------------- responses
Redirect(to) == [kind |-> "redirect", to |-> to, body |-> <<>>]
Send(body) == [kind |-> "send", to |-> "", body |-> body]
SendFile(f) == [kind |-> "sendFile", to |-> f, body |-> <<>>]
TypeError == [kind |-> "TypeError", to |-> "", body |-> <<>>]
NoRes == [kind |-> "none", to |-> "", body |-> <<>>]

IdleReq ==
  [route |-> Null, sid |-> Null, userId |-> NoId, name |-> Null, email |-> Null,
   password |-> Null, birthday |-> Null, network |-> Null, content |-> Null,
   file |-> NoFile, stored |-> NoFile, user |-> NoId, doc |-> NoDoc,
   post |-> NoDoc, list |-> <<>>]

\* ---------------------------------------------------------------- state
InitWith(b) ==
  /\ budget = b
  /\ users = <<>>
  /\ posts = <<>>
  /\ session = [s \in Sessions |-> NoId]
  /\ files = {}
  /\ now = 0
  /\ nreq = 0
  /\ pc = [p \in Procs |-> "idle"]
  /\ req = [p \in Procs |-> IdleReq]
  /\ out = [req |-> IdleReq, res |-> NoRes]

Init == InitWith(MaxReqs)

InitAuth == InitWith(MaxAuthReqs)

InitFeed == InitWith(MaxFeedReqs)

InitProfile == InitWith(MaxProfileReqs)

\* the signup forms clients submit: the third has the email of the first and
\* leaves the network empty
Form(n, e, w, d, k) ==
  [name |-> n, email |-> e, password |-> w, birthday |-> d, network |-> k,
   content |-> Null, file |-> NoFile]

SignupForms ==
  {Form("Ann", "ann@x.com", "pw", "2000-01-01", "Mars"),
   Form("Bob", "bob@x.com", "pw2", "1999-12-31", "Venus"),
   Form("Eve", "ann@x.com", "pw2", "2001-02-03", "")}

\* the request bodies a client may send to a route
NoBody ==
  [name |-> Null, email |-> Null, password |-> Null, birthday |-> Null,
   network |-> Null, content |-> Null, file |-> NoFile]

Bodies(route) ==
  CASE route = "POST /signup" -> SignupForms
    [] route = "POST /login" ->
         {[NoBody EXCEPT !.email = e, !.password = w] : e \in Emails, w \in Passwords}
    [] route = "POST /post" ->
         {NoBody} \cup {[NoBody EXCEPT !.content = c] : c \in Contents}
           \cup {[NoBody EXCEPT !.content = c, !.file = f] : c \in Contents, f \in OrigNames}
    [] route = "POST /upload-profile-pic" ->
         {NoBody} \cup {[NoBody EXCEPT !.file = f] : f \in OrigNames}
    [] OTHER -> {NoBody}

\* express-session: the request gets the session its cookie resolves to
Request(route, s, b) ==
  [IdleReq EXCEPT !.route = route, !.sid = s, !.userId = session[s],
                  !.name = b.name, !.email = b.email, !.password = b.password,
                  !.birthday = b.birthday, !.network = b.network,
                  !.content = b.content, !.file = b.file]

\* a request is received; the handlers in flight are interchangeable, so it
\* takes the first free one
Start(p) ==
  /\ pc[p] = "idle"
  /\ \A q \in Procs : q < p => pc[q] # "idle"
  /\ nreq < budget
  /\ nreq' = nreq + 1
  /\ UNCHANGED budget

\* a request in flight goes on from where it waits
Resume(p, label) ==
  /\ pc[p] = label
  /\ UNCHANGED <<nreq, budget>>

\* the response ends the request r
Respond(p, r, res) ==
  /\ out' = [req |-> r, res |-> res]
  /\ pc' = [pc EXCEPT ![p] = "idle"]
  /\ req' = [req EXCEPT ![p] = IdleReq]

\* the request r waits, for the database or for its handler to resume; out is
\* the response of the last step
Await(p, label, r) ==
  /\ pc' = [pc EXCEPT ![p] = label]
  /\ req' = [req EXCEPT ![p] = r]
  /\ out' = [req |-> IdleReq, res |-> NoRes]

\* Date.now(): the millisecond clock never runs backwards; now is its last reading
Clock == now..MaxTime

\* function requireLogin: next() is called only with a session userId
RequireLoginAlways(r) == TRUE

RequireLogin(r) == r.userId # NoId

\* a protected route without a session userId
GuardRedirect(p) ==
  /\ Start(p)
  /\ \E route \in ProtectedRoutes, s \in Sessions :
       \E b \in Bodies(route) :
         LET r == Request(route, s, b)
         IN /\ ~RequireLogin(r)
            /\ Respond(p, r, Redirect("/"))
  /\ UNCHANGED <<users, posts, session, files, now>>

Landing(p) ==
  /\ Start(p)
  /\ \E s \in Sessions : \E b \in Bodies("GET /") :
       Respond(p, Request("GET /", s, b), SendFile("index.html"))
  /\ UNCHANGED <<users, posts, session, files, now>>

SignupPage(p) ==
  /\ Start(p)
  /\ \E s \in Sessions : \E b \in Bodies("GET /signup") :
       Respond(p, Request("GET /signup", s, b), SendFile("signup.html"))
  /\ UNCHANGED <<users, posts, session, files, now>>

\* POST /signup: the form is read and User.findOne({ email }) is requested
SignupStart(p) ==
  /\ Start(p)
  /\ \E s \in Sessions : \E b \in Bodies("POST /signup") :
       Await(p, "signup_findOne", Request("POST /signup", s, b))
  /\ UNCHANGED <<users, posts, session, files, now>>

\* the database answers User.findOne({ email })
SignupFindOne(p) ==
  /\ Resume(p, "signup_findOne")
  /\ Await(p, "signup_found",
           [req[p] EXCEPT !.user = FindOneByEmail(users, req[p].email)])
  /\ UNCHANGED <<users, posts, session, files, now>>

\* (a signup that logs the owner of a known email in)
SignupFoundBinds(p) ==
  /\ Resume(p, "signup_found")
  /\ IF req[p].user # NoId
       THEN /\ session' = [session EXCEPT ![req[p].sid] = req[p].user]
            /\ Respond(p, req[p], Redirect("/feed"))
       ELSE /\ Await(p, "signup_create", req[p])
            /\ UNCHANGED session
  /\ UNCHANGED <<users, posts, files, now>>

\* the handler resumes: an existing account ends the request, otherwise
\* User.create is requested
SignupFound(p) ==
  /\ Resume(p, "signup_found")
  /\ IF req[p].user # NoId
       THEN Respond(p, req[p], Send(<<"User already exists.">>))
       ELSE Await(p, "signup_create", req[p])
  /\ UNCHANGED <<users, posts, session, files, now>>

\* the database answers User.create: the insert, or its refusal by the index
SignupCreate(p) ==
  /\ Resume(p, "signup_create")
  /\ IF UniqueEmail(users, req[p].email)
       THEN /\ users' = Append(users, NewUser(req[p].name, req[p].email, req[p].password,
                                              req[p].birthday, req[p].network))
            /\ Await(p, "signup_created", [req[p] EXCEPT !.user = Len(users) + 1])
       ELSE /\ Await(p, "signup_created", req[p])
            /\ UNCHANGED users
  /\ UNCHANGED <<posts, session, files, now>>

\* (a signup that binds its session whatever the insert answered)
SignupCreatedBindsAlways(p) ==
  /\ Resume(p, "signup_created")
  /\ session' = [session EXCEPT ![req[p].sid] = Len(users) + 1]
  /\ IF req[p].user # NoId
       THEN Respond(p, req[p], Redirect("/feed"))
       ELSE Respond(p, req[p], Send(<<"Error creating user.">>))
  /\ UNCHANGED <<users, posts, files, now>>

\* the handler resumes: the session is bound to the new account; the catch
\* after a refusal
SignupCreated(p) ==
  /\ Resume(p, "signup_created")
  /\ IF req[p].user # NoId
       THEN /\ session' = [session EXCEPT ![req[p].sid] = req[p].user]
            /\ Respond(p, req[p], Redirect("/feed"))
       ELSE /\ Respond(p, req[p], Send(<<"Error creating user.">>))
            /\ UNCHANGED session
  /\ UNCHANGED <<users, posts, files, now>>

\* POST /login: the form is read and User.findOne({ email, password }) is requested
LoginStart(p) ==
  /\ Start(p)
  /\ \E s \in Sessions : \E b \in Bodies("POST /login") :
       Await(p, "login_findOne", Request("POST /login", s, b))
  /\ UNCHANGED <<users, posts, session, files, now>>

\* the database answers User.findOne({ email, password })
LoginFindOne(p) ==
  /\ Resume(p, "login_findOne")
  /\ Await(p, "login_found",
           [req[p] EXCEPT !.user =
              FindOneByEmailPassword(users, req[p].email, req[p].password)])
  /\ UNCHANGED <<users, posts, session, files, now>>

\* the handler resumes: no account, or the session is bound to the one found
LoginFound(p) ==
  /\ Resume(p, "login_found")
  /\ IF req[p].user = NoId
       THEN /\ Respond(p, req[p], Send(<<"Invalid credentials.">>))
            /\ UNCHANGED session
       ELSE /\ session' = [session EXCEPT ![req[p].sid] = req[p].user]
            /\ Respond(p, req[p], Redirect("/feed"))
  /\ UNCHANGED <<users, posts, files, now>>

Home(p) ==
  /\ Start(p)
  /\ \E s \in Sessions : \E b \in Bodies("GET /home") :
       LET r == Request("GET /home", s, b)
       IN /\ RequireLogin(r)
          /\ Respond(p, r, SendFile("home.html"))
  /\ UNCHANGED <<users, posts, session, files, now>>

\* the posts whose creation is in flight
PostsInFlight ==
  Cardinality({q \in Procs : pc[q] \in {"post_multer", "post_write", "post_findById",
                                        "post_found", "post_create"}})

\* POST /post: the guard, then upload.single("image") waits for the body
PostGuard(p) ==
  /\ Start(p)
  /\ Len(posts) + PostsInFlight < MaxPosts
  /\ \E s \in Sessions : \E b \in Bodies("POST /post") :
       LET r == Request("POST /post", s, b)
       IN /\ RequireLogin(r)
          /\ Await(p, "post_multer", r)
  /\ UNCHANGED <<users, posts, session, files, now>>

\* the file part arrives: storage.filename names it and the file is put in uploads/
PostName(p) ==
  /\ Resume(p, "post_multer")
  /\ req[p].file # NoFile
  /\ \E t \in Clock, rnd \in Rands :
       /\ now' = t
       /\ files' = files \cup {filename(t, rnd, req[p].file)}
       /\ Await(p, "post_write", [req[p] EXCEPT !.stored = filename(t, rnd, req[p].file)])
  /\ UNCHANGED <<users, posts, session>>

\* the body is read and the file, if any, written: the handler starts and
\* requests User.findById
PostStart(p) ==
  /\ \/ Resume(p, "post_multer") /\ req[p].file = NoFile
     \/ Resume(p, "post_write")
  /\ Await(p, "post_findById", req[p])
  /\ UNCHANGED <<users, posts, session, files, now>>

\* the database answers User.findById
PostFindById(p) ==
  /\ Resume(p, "post_findById")
  /\ LET user == FindById(users, req[p].userId)
     IN Await(p, "post_found",
              [req[p] EXCEPT !.user = user,
                             !.doc = IF user = NoId THEN NoDoc ELSE users[user]])
  /\ UNCHANGED <<users, posts, session, files, now>>

\* the handler resumes: without an account the request is sent to "/", otherwise
\* the document is built (createdAt: Date.now) and Post.create is requested
PostFound(p) ==
  /\ Resume(p, "post_found")
  /\ LET imagePath == IF req[p].stored = NoFile THEN NoPath ELSE UploadPath(req[p].stored)
     IN IF req[p].user = NoId
          THEN /\ Respond(p, req[p], Redirect("/"))
               /\ UNCHANGED now
          ELSE \E t \in Clock :
                 /\ now' = t
                 /\ Await(p, "post_create",
                          [req[p] EXCEPT !.post =
                             NewPost(req[p].user, req[p].doc.name, req[p].content,
                                     imagePath, t)])
  /\ UNCHANGED <<users, posts, session, files>>

\* the database answers Post.create: the insert
PostCreate(p) ==
  /\ Resume(p, "post_create")
  /\ posts' = Append(posts, req[p].post)
  /\ Await(p, "post_created", req[p])
  /\ UNCHANGED <<users, session, files, now>>

\* the handler resumes and redirects to the feed
PostCreated(p) ==
  /\ Resume(p, "post_created")
  /\ Respond(p, req[p], Redirect("/feed"))
  /\ UNCHANGED <<users, posts, session, files, now>>

\* GET /feed: the guard, and User.findById is requested
FeedGuard(p) ==
  /\ Start(p)
  /\ \E s \in Sessions : \E b \in Bodies("GET /feed") :
       LET r == Request("GET /feed", s, b)
       IN /\ RequireLogin(r)
          /\ Await(p, "feed_findById", r)
  /\ UNCHANGED <<users, posts, session, files, now>>

\* the database answers User.findById
FeedFindById(p) ==
  /\ Resume(p, "feed_findById")
  /\ Await(p, "feed_found", [req[p] EXCEPT !.user = FindById(users, req[p].userId)])
  /\ UNCHANGED <<users, posts, session, files, now>>

\* the handler resumes (the account is not used) and requests
\* Post.find().sort({ createdAt: -1 })
FeedFound(p) ==
  /\ Resume(p, "feed_found")
  /\ Await(p, "feed_find", req[p])
  /\ UNCHANGED <<users, posts, session, files, now>>

\* the database answers Post.find().sort({ createdAt: -1 })
FeedFind(p) ==
  /\ Resume(p, "feed_find")
  /\ Await(p, "feed_posts", [req[p] EXCEPT !.list = SortDesc(posts)])
  /\ UNCHANGED <<users, posts, session, files, now>>

\* the handler resumes and sends the page
FeedPage(p) ==
  /\ Resume(p, "feed_posts")
  /\ Respond(p, req[p], Send(RenderFeed(req[p].list)))
  /\ UNCHANGED <<users, posts, session, files, now>>

\* POST /upload-profile-pic: the guard, then upload.single("profilePic") waits
\* for the body
UploadGuard(p) ==
  /\ Start(p)
  /\ \E s \in Sessions : \E b \in Bodies("POST /upload-profile-pic") :
       LET r == Request("POST /upload-profile-pic", s, b)
       IN /\ RequireLogin(r)
          /\ Await(p, "upload_multer", r)
  /\ UNCHANGED <<users, posts, session, files, now>>

\* the file part arrives: storage.filename names it and the file is put in uploads/
UploadName(p) ==
  /\ Resume(p, "upload_multer")
  /\ req[p].file # NoFile
  /\ \E t \in Clock, rnd \in Rands :
       /\ now' = t
       /\ files' = files \cup {filename(t, rnd, req[p].file)}
       /\ Await(p, "upload_write", [req[p] EXCEPT !.stored = filename(t, rnd, req[p].file)])
  /\ UNCHANGED <<users, posts, session>>

\* the body is read and the file, if any, written: the handler starts; without
\* a file the request ends, otherwise User.findById is requested
UploadStart(p) ==
  /\ \/ /\ Resume(p, "upload_multer")
        /\ req[p].file = NoFile
        /\ Respond(p, req[p], Redirect("/profile"))
     \/ /\ Resume(p, "upload_write")
        /\ Await(p, "upload_findById", req[p])
  /\ UNCHANGED <<users, posts, session, files, now>>

\* the database answers User.findById: the document is loaded
UploadFindById(p) ==
  /\ Resume(p, "upload_findById")
  /\ LET user == FindById(users, req[p].userId)
     IN Await(p, "upload_found",
              [req[p] EXCEPT !.user = user,
                             !.doc = IF user = NoId THEN NoDoc ELSE users[user]])
  /\ UNCHANGED <<users, posts, session, files, now>>

\* the handler resumes: user.profilePic is assigned (a TypeError without an
\* account) and user.save() is requested
UploadFound(p) ==
  /\ Resume(p, "upload_found")
  /\ IF req[p].user = NoId
       THEN Respond(p, req[p], TypeError)
       ELSE Await(p, "upload_save", req[p])
  /\ UNCHANGED <<users, posts, session, files, now>>

\* user.profilePic = path; await user.save(): mongoose marks a path modified
\* when the value assigned differs from the one loaded, and save() writes the
\* modified paths of the document, and nothing when there is none
Save(us, id, loaded, path) ==
  IF loaded.profilePic = path THEN us ELSE [us EXCEPT ![id].profilePic = path]

\* the database answers user.save()
UploadSave(p) ==
  /\ Resume(p, "upload_save")
  /\ users' = Save(users, req[p].user, req[p].doc, UploadPath(req[p].stored))
  /\ Await(p, "upload_saved", req[p])
  /\ UNCHANGED <<posts, session, files, now>>

\* the handler resumes and redirects to the profile
UploadSaved(p) ==
  /\ Resume(p, "upload_saved")
  /\ Respond(p, req[p], Redirect("/profile"))
  /\ UNCHANGED <<users, posts, session, files, now>>

\* GET /profile: the guard, and User.findById is requested
ProfileGuard(p) ==
  /\ Start(p)
  /\ \E s \in Sessions : \E b \in Bodies("GET /profile") :
       LET r == Request("GET /profile", s, b)
       IN /\ RequireLogin(r)
          /\ Await(p, "profile_findById", r)
  /\ UNCHANGED <<users, posts, session, files, now>>

\* the database answers User.findById
ProfileFindById(p) ==
  /\ Resume(p, "profile_findById")
  /\ LET user == FindById(users, req[p].userId)
     IN Await(p, "profile_found",
              [req[p] EXCEPT !.user = user,
                             !.doc = IF user = NoId THEN NoDoc ELSE users[user]])
  /\ UNCHANGED <<users, posts, session, files, now>>

\* the handler resumes and sends the page (a TypeError without an account)
ProfilePage(p) ==
  /\ Resume(p, "profile_found")
  /\ IF req[p].user = NoId
       THEN Respond(p, req[p], TypeError)
       ELSE Respond(p, req[p], Send(RenderProfile(req[p].doc)))
  /\ UNCHANGED <<users, posts, session, files, now>>

\* req.session.destroy: the session no longer resolves to an account
DestroyKeeps(sess, s) == sess

Destroy(sess, s) == [sess EXCEPT ![s] = NoId]

\* GET /logout: req.session.destroy deletes the session
Logout(p) ==
  /\ Start(p)
  /\ \E s \in Sessions : \E b \in Bodies("GET /logout") :
       /\ session' = Destroy(session, s)
       /\ Await(p, "logout_destroyed", Request("GET /logout", s, b))
  /\ UNCHANGED <<users, posts, files, now>>

\* the callback of destroy redirects to "/"
LogoutDone(p) ==
  /\ Resume(p, "logout_destroyed")
  /\ Respond(p, req[p], Redirect("/"))
  /\ UNCHANGED <<users, posts, session, files, now>>

Next ==
  \E p \in Procs :
       \/ GuardRedirect(p)
       \/ Landing(p)
       \/ SignupPage(p)
       \/ SignupStart(p)
       \/ SignupFindOne(p)
       \/ SignupFound(p)
       \/ SignupCreate(p)
       \/ SignupCreated(p)
       \/ LoginStart(p)
       \/ LoginFindOne(p)
       \/ LoginFound(p)
       \/ Home(p)
       \/ PostGuard(p)
       \/ PostName(p)
       \/ PostStart(p)
       \/ PostFindById(p)
       \/ PostFound(p)
       \/ PostCreate(p)
       \/ PostCreated(p)
       \/ FeedGuard(p)
       \/ FeedFindById(p)
       \/ FeedFound(p)
       \/ FeedFind(p)
       \/ FeedPage(p)
       \/ UploadGuard(p)
       \/ UploadName(p)
       \/ UploadStart(p)
       \/ UploadFindById(p)
       \/ UploadFound(p)
       \/ UploadSave(p)
       \/ UploadSaved(p)
       \/ ProfileGuard(p)
       \/ ProfileFindById(p)
       \/ ProfilePage(p)
       \/ Logout(p)
       \/ LogoutDone(p)

Spec == Init /\ [][Next]_vars

\* accounts and sessions: the routes that read or write them
NextAuth ==
  \E p \in Procs :
       \/ GuardRedirect(p)
       \/ Landing(p)
       \/ SignupPage(p)
       \/ SignupStart(p)
       \/ SignupFindOne(p)
       \/ SignupFound(p)
       \/ SignupCreate(p)
       \/ SignupCreated(p)
       \/ LoginStart(p)
       \/ LoginFindOne(p)
       \/ LoginFound(p)
       \/ Home(p)
       \/ ProfileGuard(p)
       \/ ProfileFindById(p)
       \/ ProfilePage(p)
       \/ Logout(p)
       \/ LogoutDone(p)

SpecAuth == InitAuth /\ [][NextAuth]_vars

\* the feed: accounts are made, posts are created and listed
NextFeed ==
  \E p \in Procs :
       \/ SignupStart(p)
       \/ SignupFindOne(p)
       \/ SignupFound(p)
       \/ SignupCreate(p)
       \/ SignupCreated(p)
       \/ PostGuard(p)
       \/ PostName(p)
       \/ PostStart(p)
       \/ PostFindById(p)
       \/ PostFound(p)
       \/ PostCreate(p)
       \/ PostCreated(p)
       \/ FeedGuard(p)
       \/ FeedFindById(p)
       \/ FeedFound(p)
       \/ FeedFind(p)
       \/ FeedPage(p)

SpecFeed == InitFeed /\ [][NextFeed]_vars

\* the profile: accounts are made, avatars are uploaded and shown
NextProfile ==
  \E p \in Procs :
       \/ SignupStart(p)
       \/ SignupFindOne(p)
       \/ SignupFound(p)
       \/ SignupCreate(p)
       \/ SignupCreated(p)
       \/ UploadGuard(p)
       \/ UploadName(p)
       \/ UploadStart(p)
       \/ UploadFindById(p)
       \/ UploadFound(p)
       \/ UploadSave(p)
       \/ UploadSaved(p)
       \/ ProfileGuard(p)
       \/ ProfileFindById(p)
       \/ ProfilePage(p)

SpecProfile == InitProfile /\ [][NextProfile]_vars

\* ================================================================ properties
\* the step ends a request to the route with a response
Ended(route) == out'.res.kind # "none" /\ out'.req.route = route

\* the step receives a request; Received is that request
Receives == nreq' = nreq + 1

Received ==
  IF out'.res.kind # "none" THEN out'.req
  ELSE req'[CHOOSE p \in Procs : pc[p] = "idle" /\ pc'[p] # "idle"]

\* the step is the one the request in flight p takes from where it waits
Moves(p, label) == pc[p] = label /\ pc'[p] # label

StoreUnchanged == users' = users /\ posts' = posts /\ files' = files

\* an account has the email
Taken(email) == \E i \in 1..Len(users) : users[i].email = email

\* C1: a request to a protected route whose session holds no account id is
\* redirected to "/" and runs no handler: it creates no post, changes no
\* account and stores no file, and no such request is ever in flight.
C1_GuardRedirects ==
  [][/\ \A p \in Procs :
          pc'[p] # "idle" /\ req'[p].route \in ProtectedRoutes => req'[p].userId # NoId
     /\ (Receives /\ Received.route \in ProtectedRoutes /\ Received.userId = NoId)
          => /\ out'.res = Redirect("/")
             /\ StoreUnchanged
             /\ session' = session]_vars

\* an upload with a file, sent without a session while an account exists, was
\* redirected to "/"
C1_Witness ==
  /\ out.req.route = "POST /upload-profile-pic"
  /\ out.req.file # NoFile
  /\ out.req.userId = NoId
  /\ out.res = Redirect("/")
  /\ users # <<>>
  /\ files = {}

\* C2: a logout, as it is received, leaves its session without an account id,
\* and is then answered with a redirect to "/"; a session without an account
\* id gets one only from a signup or a login that succeeds on that session;
\* and a request to a protected route received while its session has none is
\* redirected to "/" and changes nothing.
C2_LogoutHolds ==
  [][/\ (Receives /\ Received.route = "GET /logout")
          => session' = [session EXCEPT ![Received.sid] = NoId]
     /\ \A p \in Procs :
          Moves(p, "logout_destroyed")
            => /\ out'.res = Redirect("/")
               /\ session' = session
     /\ \A s \in Sessions :
          (session[s] = NoId /\ session'[s] # NoId)
            => /\ out'.req.route \in {"POST /signup", "POST /login"}
               /\ out'.req.sid = s
               /\ out'.res = Redirect("/feed")
     /\ \A s \in Sessions :
          (Receives /\ Received.sid = s /\ Received.route \in ProtectedRoutes
             /\ session[s] = NoId)
            => /\ out'.res = Redirect("/")
               /\ StoreUnchanged
               /\ session' = session]_vars

\* three requests: an account was made, its session was logged out, and the
\* request after that, to a protected route, was redirected to "/"
C2_Witness ==
  /\ nreq = 3
  /\ users # <<>>
  /\ \A s \in Sessions : session[s] = NoId
  /\ \A p \in Procs : pc[p] = "idle"
  /\ out.req.route \in ProtectedRoutes
  /\ out.res = Redirect("/")

\* C3: a signup whose email an account has, when the database looks it up or
\* when it is asked for the insert, adds and changes no account; it is answered
\* with a message and binds no session.
C3_DuplicateSignup ==
  [][\A p \in Procs :
       /\ (Moves(p, "signup_findOne") /\ Taken(req[p].email))
            => /\ users' = users
               /\ session' = session
               /\ req'[p].user # NoId
       /\ (Moves(p, "signup_found") /\ req[p].user # NoId)
            => /\ users' = users
               /\ session' = session
               /\ pc'[p] = "idle"
               /\ out'.res.kind = "send"
       /\ (Moves(p, "signup_create") /\ Taken(req[p].email))
            => /\ users' = users
               /\ session' = session
               /\ req'[p].user = NoId
       /\ (Moves(p, "signup_created") /\ req[p].user = NoId)
            => /\ users' = users
               /\ session' = session
               /\ out'.res.kind = "send"]_vars

\* Eve's signup, with Ann's email and another password, was refused while the
\* session that sent it has no account
C3_Witness ==
  /\ out.req.route = "POST /signup"
  /\ out.req.name = "Eve"
  /\ out.res = Send(<<"User already exists.">>)
  /\ Len(users) = 1
  /\ users[1].name = "Ann"
  /\ session[out.req.sid] = NoId

\* C4: the insert of a signup whose email no account has adds exactly one
\* account, with the name, email, password, birthday and network of the form
\* and no avatar, and the handler then leaves the session of the request bound
\* to the id of that account, the other sessions as they were.
C4_FreshSignup ==
  [][\A p \in Procs :
       /\ (Moves(p, "signup_create") /\ ~Taken(req[p].email))
            => /\ users' = Append(users,
                     [name |-> req[p].name, email |-> req[p].email,
                      password |-> req[p].password, birthday |-> req[p].birthday,
                      network |-> req[p].network, profilePic |-> NoPath])
               /\ req'[p].user = Len(users')
       /\ (Moves(p, "signup_created") /\ req[p].user # NoId)
            => /\ users' = users
               /\ users[req[p].user].email = req[p].email
               /\ users[req[p].user].name = req[p].name
               /\ session' = [session EXCEPT ![req[p].sid] = req[p].user]
               /\ out'.res = Redirect("/feed")]_vars

\* Bob signed up second, on a session that was bound to the first account
C4_Witness ==
  /\ out.req.route = "POST /signup"
  /\ out.res = Redirect("/feed")
  /\ out.req.name = "Bob"
  /\ out.req.userId = 1
  /\ Len(users) = 2
  /\ users[2].network = "Venus"
  /\ session[out.req.sid] = 2

\* the accounts a login form matches
Matching(r) ==
  {i \in 1..Len(users) : users[i].email = r.email /\ users[i].password = r.password}

\* C5: the lookup of a login finds an account that has both the email and the
\* password of the form, and none when there is no such account; the handler
\* binds the session to the account found, and binds no session when none was
\* found; no step of a login changes an account.
C5_Login ==
  [][\A p \in Procs :
       /\ Moves(p, "login_findOne")
            => /\ users' = users
               /\ session' = session
               /\ IF Matching(req[p]) = {} THEN req'[p].user = NoId
                  ELSE req'[p].user \in Matching(req[p])
       /\ Moves(p, "login_found")
            => /\ users' = users
               /\ IF req[p].user = NoId
                    THEN /\ session' = session
                         /\ out'.res = Send(<<"Invalid credentials.">>)
                    ELSE /\ req[p].user \in Matching(req[p])
                         /\ session' = [session EXCEPT ![req[p].sid] = req[p].user]
                         /\ out'.res = Redirect("/feed")]_vars

\* with Ann and Bob registered, a login as Bob bound a session to account 2
C5_Witness ==
  /\ out.req.route = "POST /login"
  /\ out.res = Redirect("/feed")
  /\ Len(users) = 2
  /\ out.req.email = "bob@x.com"
  /\ out.req.userId = NoId
  /\ session[out.req.sid] = 2

\* C6: no two accounts have the same email in any state, and an insert that
\* finds its email taken after the existence check passed creates no account,
\* and its request is answered with an error and binds no session.
C6_UniqueEmails ==
  /\ [](\A i, j \in 1..Len(users) : users[i].email = users[j].email => i = j)
  /\ [][\A p \in Procs :
          /\ (Moves(p, "signup_create") /\ Taken(req[p].email))
               => /\ users' = users
                  /\ pc'[p] = "signup_created"
                  /\ req'[p].user = NoId
          /\ (Moves(p, "signup_created") /\ req[p].user = NoId)
               => /\ session' = session
                  /\ out'.res = Send(<<"Error creating user.">>)]_vars

\* two signups for one email both passed the existence check; the second insert
\* was refused and its session has no account
C6_Witness ==
  /\ out.req.route = "POST /signup"
  /\ out.res = Send(<<"Error creating user.">>)
  /\ Len(users) = 1
  /\ users[1].email = out.req.email
  /\ users[1].name # out.req.name
  /\ session[out.req.sid] = NoId

\* the injective maps of 1..n onto itself
Perms(n) == {f \in [1..n -> 1..n] : \A i, j \in 1..n : f[i] = f[j] => i = j}

\* C7: the insert of a POST /post appends exactly one post, with the author,
\* text and image of the request (also with neither); nothing else changes the
\* posts, and only a request whose post is in the collection is sent on to the
\* feed; the listing of GET /feed holds every post once, of every author,
\* newest first, and the page shows that listing.
C7_FeedListsAll ==
  [][/\ \A p \in Procs :
          /\ Moves(p, "post_create")
               => /\ posts' = Append(posts, req[p].post)
                  /\ req[p].post.userId = req[p].userId
                  /\ req[p].post.content = req[p].content
                  /\ req[p].post.imagePath =
                       IF req[p].file = NoFile THEN NoPath ELSE UploadPath(req[p].stored)
          /\ Moves(p, "feed_find")
               => /\ Len(req'[p].list) = Len(posts)
                  /\ \E f \in Perms(Len(posts)) :
                       \A i \in 1..Len(posts) : req'[p].list[i] = posts[f[i]]
                  /\ \A i, j \in 1..Len(posts) :
                       i < j => req'[p].list[i].createdAt >= req'[p].list[j].createdAt
          /\ Moves(p, "feed_posts")
               => out'.res = Send([i \in 1..Len(req[p].list) |-> RenderPost(req[p].list[i])])
     /\ posts' # posts => \E p \in Procs : Moves(p, "post_create")
     /\ (Ended("POST /post") /\ out'.res = Redirect("/feed"))
          => /\ posts' = posts
             /\ \E i \in 1..Len(posts) : posts[i] = out'.req.post]_vars

\* the feed shows two posts of two authors, the later one first; the first post
\* made has neither text nor image
C7_Witness ==
  /\ out.req.route = "GET /feed"
  /\ Len(posts) = 2
  /\ posts[1].createdAt < posts[2].createdAt
  /\ posts[1].userId # posts[2].userId
  /\ posts[1].content = Null
  /\ posts[1].imagePath = NoPath
  /\ out.res.body = <<RenderPost(posts[2]), RenderPost(posts[1])>>

\* C8 (as claimed): an upload with a file stores it under a name no file has
\* had, and its save sets the avatar of the account of the session to that
\* path and changes nothing else of any account, and no post.
C8_NewPath ==
  [][/\ \A p \in Procs :
          (Moves(p, "upload_multer") /\ pc'[p] = "upload_write")
            => req'[p].stored \notin files
     /\ \A p \in Procs :
          Moves(p, "upload_save")
            => /\ users' = [users EXCEPT ![req[p].userId].profilePic =
                                            UploadPath(req[p].stored)]
               /\ posts' = posts]_vars

\* C9 (as claimed): every avatar upload whose file is written loads its account
\* and goes on to its save; every save, whatever was saved since its document
\* was loaded, leaves the avatar of the account at the path of that upload, all
\* else as it was; and the request is then answered without an error.
C9_LastSaveWins ==
  [][\A p \in Procs :
       /\ Moves(p, "upload_write") => pc'[p] = "upload_findById"
       /\ Moves(p, "upload_found") => pc'[p] = "upload_save"
       /\ Moves(p, "upload_save")
            => /\ users' = [users EXCEPT ![req[p].user].profilePic =
                                            UploadPath(req[p].stored)]
               /\ posts' = posts
       /\ Moves(p, "upload_saved") => out'.res = Redirect("/profile")]_vars

\* where a request waits with the answer of User.findById
Found == {"post_found", "feed_found", "upload_found", "profile_found"}

\* C10: a session with an account id holds the id of an account, and so does
\* every request that passed the login guard; no handler finds its account
\* missing: no lookup by that id comes back empty, no page fails on it and no
\* post request is sent back to "/".
C10_SessionsResolve ==
  /\ \A s \in Sessions : session[s] # NoId => FindById(users, session[s]) # NoId
  /\ \A p \in Procs :
       (pc[p] # "idle" /\ req[p].route \in ProtectedRoutes)
         => FindById(users, req[p].userId) # NoId
  /\ \A p \in Procs : pc[p] \in Found => req[p].user = req[p].userId
  /\ out.res.kind # "TypeError"
  /\ (out.req.route \in ProtectedRoutes /\ out.req.userId # NoId)
       => out.res # Redirect("/")

\* the profile page of Eve, who left the network empty, was rendered for her
\* session
C10_Witness ==
  /\ out.req.route = "GET /profile"
  /\ out.res.kind = "send"
  /\ out.req.userId = 1
  /\ session[out.req.sid] = 1
  /\ users[1].name = "Eve"
  /\ out.res.body = <<DefaultAvatar, "Eve", "Unknown network">>

====
